---- MODULE Spec2Model ----
(***************************************************************************)
(* Model of src/linkchecker.py: the Streamlit "Internal Link Optimiser".   *)
(* One run of the script is modelled: the sidebar widgets hold their       *)
(* values, the "Run Audit" button is pressed once, the seed list is        *)
(* resolved, and the audit loop walks the seed pages and their links.      *)
(*                                                                         *)
(* Text is a sequence of atoms: the atom " " is a blank, "LF" a line feed, *)
(* and every other atom is a run of non-blank characters.                  *)
(***************************************************************************)
EXTENDS Integers, Sequences, FiniteSets, TLC

\* ------------------------------------------------------------------ bounds
\* Longest text the user can type into the sidebar input, in atoms.
MaxInput == 3

\* ------------------------------------------------------------------ text
SP == " "
LF == "LF"
U1 == "https://a.com/p1"
U2 == "http://b.org/p2"
JUNK == "hello"
Whitespace == {SP, LF}
URLAtoms == {U1, U2}
Atoms == {SP, LF, U1, U2, JUNK}

\* Python's None, where a text is expected (Element.text of an empty element).
NoneText == <<"None">>

RECURSIVE LStrip(_)
LStrip(s) == IF s # <<>> /\ Head(s) \in Whitespace THEN LStrip(Tail(s)) ELSE s

RECURSIVE RStrip(_)
RStrip(s) ==
    IF s # <<>> /\ s[Len(s)] \in Whitespace THEN RStrip(SubSeq(s, 1, Len(s) - 1)) ELSE s

\* str.strip(): leading and trailing whitespace removed, inner whitespace kept.
Strip(s) == RStrip(LStrip(s))

\* str.split('\n'): the pieces between line feeds, empty pieces included.
RECURSIVE Split(_)
Split(s) ==
    IF \A i \in 1..Len(s) : s[i] # LF
    THEN <<s>>
    ELSE LET k == CHOOSE i \in 1..Len(s) :
                      s[i] = LF /\ \A j \in 1..(i - 1) : s[j] # LF
         IN  <<SubSeq(s, 1, k - 1)>> \o Split(SubSeq(s, k + 1, Len(s)))

\* [line.strip() for line in input_data.split('\n') if line.strip()]
RECURSIVE StripNonBlank(_)
StripNonBlank(ls) ==
    IF ls = <<>> THEN <<>>
    ELSE IF Strip(Head(ls)) # <<>>
         THEN <<Strip(Head(ls))>> \o StripNonBlank(Tail(ls))
         ELSE StripNonBlank(Tail(ls))

BulkLines(s) == StripNonBlank(Split(s))

\* requests.get raises MissingSchema before any I/O unless the text opens with a
\* scheme; only the URL atoms carry one.
HasScheme(s) == s # <<>> /\ s # NoneText /\ Head(s) \in URLAtoms

\* urlparse(base): scheme and network location of a page URL.
SchemeOf(s) == IF Head(s) = U1 THEN "https" ELSE "http"
HostOf(s) == IF Head(s) = U1 THEN "a.com" ELSE "b.org"

\* ------------------------------------------------------------------ hrefs
\* An href as written in the page: scheme "" is a relative reference, host ""
\* with scheme "" a path on the page's own site; bad marks an href urlsplit
\* rejects (an unbalanced "[" in the network location).
Rel(p) == [scheme |-> "", host |-> "", path |-> p, bad |-> FALSE]
Abs(s, h, p) == [scheme |-> s, host |-> h, path |-> p, bad |-> FALSE]
Mailto == [scheme |-> "mailto", host |-> "", path |-> "bob@a.com", bad |-> FALSE]
BadHref == [scheme |-> "http", host |-> "[::1", path |-> "", bad |-> TRUE]

\* urljoin(source_url, original_href) for an href urlsplit accepts.
UrlJoin(base, h) ==
    IF h.scheme # ""
    THEN [scheme |-> h.scheme, host |-> h.host, path |-> h.path]
    ELSE IF h.host # ""
         THEN [scheme |-> SchemeOf(base), host |-> h.host, path |-> h.path]
         ELSE [scheme |-> SchemeOf(base), host |-> HostOf(base), path |-> h.path]

UrlJoinRaises(h) == h.bad

\* absolute_link.startswith('http')
StartsWithHttp(u) == u.scheme \in {"http", "https"}

NoLink == [scheme |-> "", host |-> "", path |-> ""]

\* ------------------------------------------------------------------ the web
\* What a GET of a link answers, by its path: a transport failure, or a
\* response with its redirect history (the statuses of the hops), its own
\* status and the URL finally reached.
Resp(hist, code, u) == [raised |-> FALSE, history |-> hist, status_code |-> code, url |-> u]
Failure == [raised |-> TRUE, history |-> <<>>, status_code |-> 0, url |-> NoLink]

At(u, p) == [scheme |-> u.scheme, host |-> u.host, path |-> p]

LinkResponse(u) ==
    CASE u.path = "/ok"    -> Resp(<<>>, 200, u)
      [] u.path = "/gone"  -> Resp(<<>>, 404, u)
      [] u.path = "/err"   -> Resp(<<>>, 500, u)
      [] u.path = "/moved" -> Resp(<<301>>, 200, At(u, "/ok"))
      [] u.path = "/old"   -> Resp(<<301>>, 404, At(u, "/gone"))
      [] u.path = "/tmp"   -> Resp(<<302>>, 200, At(u, "/ok"))
      [] u.path = "/hop2"  -> Resp(<<302, 301>>, 200, At(u, "/ok"))
      [] OTHER             -> Failure

\* ------------------------------------------------------------------ pages
\* A parsed page: whether the parser saw a <body>, and the elements of the
\* document in document order, each with its tag, its id and the anchors inside
\* it. An anchor has an href or not, and its text.
A(h, t) == [hasHref |-> TRUE, href |-> h, text |-> t]
ANoHref(t) == [hasHref |-> FALSE, href |-> Rel(""), text |-> t]
Node(t, i, as) == [tag |-> t, id |-> i, anchors |-> as]
Page(b, ns) == [raised |-> FALSE, body |-> b, nodes |-> ns]
PageFailure == [raised |-> TRUE, body |-> FALSE, nodes |-> <<>>]

P1 == Page(TRUE, << Node("nav", "", <<A(Rel("/down"), <<"Menu">>)>>),
                    Node("article", "", <<A(Rel("/err"), <<"Side">>)>>),
                    Node("main", "", <<ANoHref(<<"Top">>),
                                       A(Rel("/ok"), <<"Home">>),
                                       A(Rel("/gone"), <<"Old">>)>>) >>)
P2 == Page(TRUE, << Node("main", "", <<A(Abs("https", "c.net", "/tmp"), <<>>)>>),
                    Node("main", "", <<A(Rel("/gone"), <<"Old">>)>>) >>)
P3 == Page(FALSE, <<>>)
P4 == Page(TRUE, << Node("nav", "", <<A(Rel("/gone"), <<"Menu">>)>>),
                    Node("main", "", <<>>) >>)
P5 == Page(TRUE, << Node("div", "MainContent", <<A(Rel("/gone"), <<"Gone">>)>>),
                    Node("article", "", <<A(Rel("/old"), <<"Old">>),
                                          A(BadHref, <<"Broken">>),
                                          A(Rel("/moved"), <<"New">>)>>) >>)
P6 == Page(TRUE, << Node("div", "MainContent", <<A(Rel("/down"), <<SP>>),
                                                 A(Mailto, <<"Mail">>),
                                                 A(Abs("", "c.net", "/hop2"), <<"Hop">>)>>),
                    Node("footer", "", <<A(Rel("/gone"), <<"Old">>)>>) >>)
P7 == Page(TRUE, << Node("section", "MainContent", <<A(Rel("/ok"), <<"Home">>)>>),
                    Node("p", "", <<A(Rel("/err"), <<"Err">>)>>) >>)

\* What a GET of a seed page can answer.
PageResponses == {PageFailure, P1, P2, P3, P4, P5, P6, P7}

RECURSIVE AllAnchors(_)
AllAnchors(ns) == IF ns = <<>> THEN <<>> ELSE Head(ns).anchors \o AllAnchors(Tail(ns))

HasNode(d, t) == \E i \in 1..Len(d.nodes) : d.nodes[i].tag = t
FirstNode(d, t) ==
    d.nodes[CHOOSE i \in 1..Len(d.nodes) :
                d.nodes[i].tag = t /\ \A j \in 1..(i - 1) : d.nodes[j].tag # t]

IsMainDiv(n) == n.tag = "div" /\ n.id = "MainContent"
HasMainDiv(d) == \E i \in 1..Len(d.nodes) : IsMainDiv(d.nodes[i])
FirstMainDiv(d) ==
    d.nodes[CHOOSE i \in 1..Len(d.nodes) :
                IsMainDiv(d.nodes[i]) /\ \A j \in 1..(i - 1) : ~IsMainDiv(d.nodes[j])]

\* Mutant of MainContent: an <article> is looked for before a <main>.
MainContent_ArticleFirst(d) ==
    IF HasNode(d, "article")
    THEN [found |-> TRUE, anchors |-> FirstNode(d, "article").anchors]
    ELSE IF HasNode(d, "main")
         THEN [found |-> TRUE, anchors |-> FirstNode(d, "main").anchors]
    ELSE IF HasMainDiv(d) THEN [found |-> TRUE, anchors |-> FirstMainDiv(d).anchors]
    ELSE IF d.body THEN [found |-> TRUE, anchors |-> AllAnchors(d.nodes)]
    ELSE [found |-> FALSE, anchors |-> <<>>]

\* soup.find('main') or soup.find('article') or soup.find('div', id='MainContent')
\* or soup.find('body'): the anchors inside the container found, or none found.
MainContent(d) ==
    IF HasNode(d, "main") THEN [found |-> TRUE, anchors |-> FirstNode(d, "main").anchors]
    ELSE IF HasNode(d, "article")
         THEN [found |-> TRUE, anchors |-> FirstNode(d, "article").anchors]
    ELSE IF HasMainDiv(d) THEN [found |-> TRUE, anchors |-> FirstMainDiv(d).anchors]
    ELSE IF d.body THEN [found |-> TRUE, anchors |-> AllAnchors(d.nodes)]
    ELSE [found |-> FALSE, anchors |-> <<>>]

HasHrefAttr(a) == a.hasHref

\* main_content.find_all('a', href=True)
FindAllLinks(as) == SelectSeq(as, HasHrefAttr)

Placeholder == <<"[Image/No Text]">>

\* link.get_text(strip=True) or "[Image/No Text]"
AnchorText(a) == IF Strip(a.text) # <<>> THEN Strip(a.text) ELSE Placeholder

\* ------------------------------------------------------------------ sitemaps
\* An XML element: namespace, local name, text, the position of its start tag
\* in the document, and its children in document order.
SM == "http://www.sitemaps.org/schemas/sitemap/0.9"
El(n, t, x, p, ks) == [ns |-> n, tag |-> t, text |-> x, pos |-> p, kids |-> ks]
NoElement == El("", "", NoneText, 0, <<>>)

\* What a GET of the sitemap URL can answer: a transport failure, content that
\* is not well-formed XML, or a document.
Sitemap(r) == [raised |-> FALSE, wellformed |-> TRUE, root |-> r]
SitemapFailure == [raised |-> TRUE, wellformed |-> FALSE, root |-> NoElement]
SitemapMalformed == [raised |-> FALSE, wellformed |-> FALSE, root |-> NoElement]

S1 == Sitemap(El(SM, "urlset", NoneText, 1, <<
          El(SM, "url", NoneText, 2, << El(SM, "loc", <<U1>>, 3, <<>>),
                                        El(SM, "lastmod", <<"2024">>, 4, <<>>) >>),
          El(SM, "url", NoneText, 5, << El(SM, "loc", <<U2>>, 6, <<>>) >>) >>))
S2 == Sitemap(El(SM, "urlset", NoneText, 1, <<>>))
S3 == Sitemap(El(SM, "sitemapindex", NoneText, 1, <<
          El(SM, "sitemap", NoneText, 2, << El(SM, "loc", <<U2>>, 3, <<>>) >>),
          El(SM, "sitemap", NoneText, 4, << El(SM, "loc", <<JUNK>>, 5, <<>>) >>) >>))
S4 == Sitemap(El("", "urlset", NoneText, 1, <<
          El("", "url", NoneText, 2, << El("", "loc", <<U1>>, 3, <<>>) >>) >>))
S5 == Sitemap(El(SM, "urlset", NoneText, 1, <<
          El(SM, "url", NoneText, 2, << El(SM, "loc", NoneText, 3, <<>>) >>),
          El(SM, "url", NoneText, 4, << El("image", "loc", <<JUNK>>, 5, <<>>),
                                        El(SM, "loc", <<U1>>, 6, <<>>) >>) >>))

SitemapResponses == {SitemapFailure, SitemapMalformed, S1, S2, S3, S4, S5}

\* Element.iter(): the element and its descendants, in document order.
RECURSIVE Iter(_)
RECURSIVE IterAll(_)
Iter(e) == <<e>> \o IterAll(e.kids)
IterAll(ks) == IF ks = <<>> THEN <<>> ELSE Iter(Head(ks)) \o IterAll(Tail(ks))

\* Mutant of IsLoc: the namespace is not looked at.
IsLoc_AnyNamespace(e) == e.tag = "loc"

\* Line 72-73: the name 'ns:loc' under the sitemap namespace.
IsLoc(e) == e.ns = SM /\ e.tag = "loc"

RECURSIVE Texts(_)
Texts(es) == IF es = <<>> THEN <<>> ELSE <<Head(es).text>> \o Texts(Tail(es))

\* [loc.text for loc in root.findall('.//ns:loc', namespace)]: the descendants
\* of the root named loc in the sitemap namespace.
FindAllLoc(root) == Texts(SelectSeq(IterAll(root.kids), IsLoc))

\* ------------------------------------------------------------------ findings
\* A Status Code is an integer or a marker text, a Final Destination a URL or
\* a marker text; both are kept as records so that the two kinds compare.
StatusInt(n) == [str |-> "", int |-> n]
StatusStr(t) == [str |-> t, int |-> 0]
DestUrl(u) == [str |-> "", url |-> u]
DestStr(t) == [str |-> t, url |-> NoLink]

ErrorTimeout == StatusStr("Error/Timeout")
NotApplicable == DestStr("N/A")
Direct == DestStr("Direct")

Finding(src, anc, lnk, st, dst) ==
    [SourcePage |-> src, AnchorText |-> anc, LinkInBody |-> lnk,
     StatusCode |-> st, FinalDestination |-> dst]

\* Mutant of InitialStatus: the status of the response finally reached.
InitialStatus_Final(r) == r.status_code

\* Lines 98-103: the status and destination read off a response.
InitialStatus(r) == IF Len(r.history) > 0 THEN r.history[1] ELSE r.status_code
FinalUrl(r) == IF Len(r.history) > 0 THEN DestUrl(r.url) ELSE Direct

\* Mutant of IsReported: only client and server errors are reported.
IsReported_ErrorsOnly(st) == st >= 400

\* Line 105: the test that decides whether a checked link is reported.
IsReported(st) == st # 200

\* Mutant of LinkRows: a failed request is passed over without a row.
LinkRows_SkipFailure(src, anc, lnk, r) ==
    IF r.raised
    THEN <<>>
    ELSE IF IsReported(InitialStatus(r))
         THEN <<Finding(src, anc, lnk, StatusInt(InitialStatus(r)), FinalUrl(r))>>
         ELSE <<>>

\* Lines 95-117: the rows one link check appends to results.
LinkRows(src, anc, lnk, r) ==
    IF r.raised
    THEN <<Finding(src, anc, lnk, ErrorTimeout, NotApplicable)>>
    ELSE IF IsReported(InitialStatus(r))
         THEN <<Finding(src, anc, lnk, StatusInt(InitialStatus(r)), FinalUrl(r))>>
         ELSE <<>>

\* Mutant of Extend: the new rows are put in front.
Extend_Front(a, b) == b \o a

\* list.extend
Extend(a, b) == a \o b

\* ------------------------------------------------------------------ state
VARIABLES
    mode,           \* sidebar: the audit mode selected
    input_data,     \* sidebar: the text typed
    slow_mode,      \* sidebar: the Slow Mode checkbox
    pc,             \* where the script is
    response,       \* get_urls_from_sitemap: what the sitemap GET answered
    urls_to_crawl,  \* the seed sequence
    ui,             \* the messages and widgets shown so far
    status_text,    \* the status line
    progress,       \* the progress bar
    idx,            \* the number of seed pages done
    all_issues,     \* the report
    page_issues,    \* what audit_page_links returned
    results,        \* audit_page_links: the rows collected for the page
    links,          \* audit_page_links: the anchors to walk
    li,             \* audit_page_links: the position in links
    anchor,         \* audit_page_links: the anchor text of the current link
    absolute_link,  \* audit_page_links: the resolved URL of the current link
    link_check,     \* audit_page_links: the response of the current link check
    fetched,        \* the URLs requested as pages, in order
    checked,        \* the URLs requested as links
    checks,         \* the number of link requests made so far
    pages,          \* what each page GET answered, in order
    sleeps,         \* the number of 0.2 s suspensions so far
    results_at,     \* provenance of results: <<seed position, link position>>
    issues_at       \* provenance of all_issues, row by row

vars == <<mode, input_data, slow_mode, pc, response, urls_to_crawl, ui, status_text,
          progress, idx, all_issues, page_issues, results, links, li, anchor,
          absolute_link, link_check, fetched, checked, checks, pages, sleeps, results_at,
          issues_at>>

widgets == <<mode, input_data, slow_mode>>
locals == <<results, links, li, anchor, absolute_link, link_check, results_at>>
network == <<fetched, checked, checks, pages, sleeps>>

Modes == {"Single URL", "Bulk URL List", "Sitemap (XML)"}

RECURSIVE TextsUpTo(_)
TextsUpTo(n) ==
    IF n = 0 THEN {<<>>}
    ELSE TextsUpTo(n - 1) \cup {Append(t, a) : t \in {x \in TextsUpTo(n - 1) : Len(x) = n - 1},
                                               a \in Atoms}

NoResponse == [raised |-> FALSE, wellformed |-> FALSE, root |-> NoElement]
NoStatus == [text |-> "", n |-> 0, of |-> 0]
NoProgress == [shown |-> FALSE, done |-> 0, of |-> 1]
NoCheck == Resp(<<>>, 0, NoLink)

Init ==
    /\ mode \in Modes
    /\ input_data \in TextsUpTo(MaxInput)
    /\ slow_mode \in BOOLEAN
    /\ pc = "ready"
    /\ response = NoResponse
    /\ urls_to_crawl = <<>>
    /\ ui = {}
    /\ status_text = NoStatus
    /\ progress = NoProgress
    /\ idx = 0
    /\ all_issues = <<>>
    /\ page_issues = <<>>
    /\ results = <<>>
    /\ links = <<>>
    /\ li = 0
    /\ anchor = <<>>
    /\ absolute_link = NoLink
    /\ link_check = NoCheck
    /\ fetched = <<>>
    /\ checked = {}
    /\ checks = 0
    /\ pages = <<>>
    /\ sleeps = 0
    /\ results_at = <<>>
    /\ issues_at = <<>>

\* ------------------------------------------------------------------ seeds
\* Lines 67-76: the seed sequence a sitemap URL resolves to, given what its GET
\* answers; a URL without a scheme raises before any answer.
SitemapOk(url, r) == HasScheme(url) /\ ~r.raised /\ r.wellformed
get_urls_from_sitemap(url, r) == IF SitemapOk(url, r) THEN FindAllLoc(r.root) ELSE <<>>

\* Lines 135-138 and 158-159: the audit starts on a non-empty seed sequence,
\* and a warning is shown otherwise.
Start(urls, shown) ==
    /\ urls_to_crawl' = urls
    /\ IF urls # <<>>
       THEN /\ pc' = "scan"
            /\ progress' = [shown |-> TRUE, done |-> 0, of |-> Len(urls)]
            /\ ui' = shown
       ELSE /\ pc' = "done"
            /\ progress' = progress
            /\ ui' = shown \cup {"warning"}
    /\ UNCHANGED <<widgets, status_text, idx, all_issues, page_issues, locals, network,
                   issues_at>>

\* Lines 125-129 with 135-159: the button pressed in Single URL mode.
RunSingle ==
    /\ pc = "ready"
    /\ mode = "Single URL"
    /\ Start(IF input_data # <<>> THEN <<Strip(input_data)>> ELSE <<>>, ui)
    /\ UNCHANGED response

\* Lines 125-131 with 135-159: the button pressed in Bulk URL List mode.
RunBulk ==
    /\ pc = "ready"
    /\ mode = "Bulk URL List"
    /\ Start(IF input_data # <<>> THEN BulkLines(input_data) ELSE <<>>, ui)
    /\ UNCHANGED response

\* Lines 125-133 with 67-76 and 135-159: the button pressed in Sitemap mode.
RunSitemap ==
    /\ pc = "ready"
    /\ mode = "Sitemap (XML)"
    /\ IF input_data = <<>>
       THEN /\ Start(<<>>, ui)
            /\ UNCHANGED response
       ELSE \E r \in SitemapResponses :
              /\ response' = IF HasScheme(Strip(input_data)) THEN r ELSE SitemapFailure
              /\ Start(get_urls_from_sitemap(Strip(input_data), r),
                       IF SitemapOk(Strip(input_data), r) THEN ui ELSE ui \cup {"error"})

\* ------------------------------------------------------------------ the audit
\* Mutant of source_url: the loop variable is not advanced.
source_url_First == urls_to_crawl[1]

\* Line 140: the seed page in hand.
source_url == urls_to_crawl[idx + 1]

\* Lines 140-142 and 79: the loop takes the next seed page and enters
\* audit_page_links.
ScanNext ==
    /\ pc = "scan"
    /\ idx < Len(urls_to_crawl)
    /\ status_text' = [text |-> "Scanning", n |-> idx + 1, of |-> Len(urls_to_crawl)]
    /\ results' = <<>>
    /\ results_at' = <<>>
    /\ pc' = "fetch"
    /\ UNCHANGED <<widgets, response, urls_to_crawl, ui, progress, idx, all_issues,
                   page_issues, links, li, anchor, absolute_link, link_check, network,
                   issues_at>>

\* Mutant of ReturnNothing: no outer handler, the exception leaves the script.
ReturnNothing_Propagates ==
    /\ page_issues' = <<>>
    /\ results' = <<>>
    /\ results_at' = <<>>
    /\ links' = <<>>
    /\ li' = 0
    /\ pc' = "crashed"

\* Lines 121-122: the outer handler returns an empty list, whatever was collected.
ReturnNothing ==
    /\ page_issues' = <<>>
    /\ results' = <<>>
    /\ results_at' = <<>>
    /\ links' = <<>>
    /\ li' = 0
    /\ pc' = "extend"

\* Lines 82-86: the page is requested and parsed and its links are listed. A
\* URL without a scheme, a transport failure and a document without any
\* container all raise into the outer handler.
FetchPage ==
    /\ pc = "fetch"
    /\ fetched' = Append(fetched, source_url)
    /\ \E d \in PageResponses :
         LET got == IF HasScheme(source_url) THEN d ELSE PageFailure IN
         /\ pages' = Append(pages, got)
         /\ IF got.raised \/ ~MainContent(got).found
            THEN ReturnNothing
            ELSE /\ links' = FindAllLinks(MainContent(got).anchors)
                 /\ li' = 1
                 /\ pc' = "link"
                 /\ UNCHANGED <<page_issues, results, results_at>>
    /\ UNCHANGED <<widgets, response, urls_to_crawl, ui, status_text, progress, idx,
                   all_issues, anchor, absolute_link, link_check, checked, checks, sleeps,
                   issues_at>>

\* Lines 88-93: the next link's anchor text and absolute URL; an href urljoin
\* rejects raises into the outer handler, and a link that is not http(s) is
\* passed over.
NextLink ==
    /\ pc = "link"
    /\ li <= Len(links)
    /\ IF UrlJoinRaises(links[li].href)
       THEN /\ ReturnNothing
            /\ anchor' = <<>>
            /\ absolute_link' = NoLink
       ELSE /\ anchor' = AnchorText(links[li])
            /\ absolute_link' = UrlJoin(source_url, links[li].href)
            /\ IF StartsWithHttp(absolute_link')
               THEN /\ pc' = "check"
                    /\ li' = li
               ELSE /\ pc' = "link"
                    /\ li' = li + 1
            /\ UNCHANGED <<page_issues, results, results_at, links>>
    /\ UNCHANGED <<widgets, response, urls_to_crawl, ui, status_text, progress, idx,
                   all_issues, link_check, network, issues_at>>

\* Lines 95-117: the link is requested and a row is appended, or not.
CheckLink ==
    /\ pc = "check"
    /\ checked' = checked \cup {absolute_link}
    /\ checks' = checks + 1
    /\ link_check' = LinkResponse(absolute_link)
    /\ LET rows == LinkRows(source_url, anchor, absolute_link, link_check') IN
         /\ results' = results \o rows
         /\ results_at' = results_at \o [i \in 1..Len(rows) |-> <<idx + 1, li>>]
    /\ pc' = "pace"
    /\ UNCHANGED <<widgets, response, urls_to_crawl, ui, status_text, progress, idx,
                   all_issues, page_issues, links, li, anchor, absolute_link, fetched,
                   pages, sleeps, issues_at>>

\* Mutant of Pace: the pause is taken only after a check that gave a row.
Pace_OnlyAfterRow ==
    /\ pc = "pace"
    /\ sleeps' = IF slow_mode /\ results_at # <<>>
                     /\ results_at[Len(results_at)] = <<idx + 1, li>>
                  THEN sleeps + 1 ELSE sleeps
    /\ li' = li + 1
    /\ pc' = "link"
    /\ UNCHANGED <<widgets, response, urls_to_crawl, ui, status_text, progress, idx,
                   all_issues, page_issues, results, links, anchor, absolute_link,
                   link_check, fetched, checked, checks, pages, results_at, issues_at>>

\* Line 119: the pause after a link check, in slow mode.
Pace ==
    /\ pc = "pace"
    /\ sleeps' = IF slow_mode THEN sleeps + 1 ELSE sleeps
    /\ li' = li + 1
    /\ pc' = "link"
    /\ UNCHANGED <<widgets, response, urls_to_crawl, ui, status_text, progress, idx,
                   all_issues, page_issues, results, links, anchor, absolute_link,
                   link_check, fetched, checked, checks, pages, results_at, issues_at>>

\* Line 120: the links are exhausted and the rows collected are returned.
ReturnResults ==
    /\ pc = "link"
    /\ li > Len(links)
    /\ page_issues' = results
    /\ links' = <<>>
    /\ li' = 0
    /\ anchor' = <<>>
    /\ absolute_link' = NoLink
    /\ link_check' = NoCheck
    /\ pc' = "extend"
    /\ UNCHANGED <<widgets, response, urls_to_crawl, ui, status_text, progress, idx,
                   all_issues, results, network, results_at, issues_at>>

\* Lines 143-144: the page's rows join the report and the bar advances.
ExtendIssues ==
    /\ pc = "extend"
    /\ all_issues' = Extend(all_issues, page_issues)
    /\ issues_at' = Extend(issues_at, results_at)
    /\ progress' = [shown |-> TRUE, done |-> idx + 1, of |-> Len(urls_to_crawl)]
    /\ idx' = idx + 1
    /\ page_issues' = <<>>
    /\ results' = <<>>
    /\ results_at' = <<>>
    /\ link_check' = NoCheck
    /\ anchor' = <<>>
    /\ absolute_link' = NoLink
    /\ pc' = "scan"
    /\ UNCHANGED <<widgets, response, urls_to_crawl, ui, status_text, links, li, network>>

\* Lines 146-157: the loop is over; the report is shown, or the success note.
Complete ==
    /\ pc = "scan"
    /\ idx = Len(urls_to_crawl)
    /\ status_text' = [text |-> "Audit Complete!", n |-> 0, of |-> 0]
    /\ ui' = ui \cup (IF all_issues # <<>> THEN {"dataframe", "download_button"}
                                          ELSE {"balloons", "success"})
    /\ pc' = "done"
    /\ UNCHANGED <<widgets, response, urls_to_crawl, progress, idx, all_issues,
                   page_issues, locals, network, issues_at>>

Audit == ScanNext \/ FetchPage \/ NextLink \/ CheckLink \/ Pace \/ ReturnResults
             \/ ExtendIssues \/ Complete

Next == RunSingle \/ RunBulk \/ RunSitemap \/ Audit

Spec == Init /\ [][Next]_vars

\* The script is one thread: once the button is pressed each step follows.
FairSpec == Spec /\ WF_vars(Audit)

\* ------------------------------------------------------------------ claims
Range(q) == {q[i] : i \in 1..Len(q)}
Last(q) == q[Len(q)]

\* The script is inside the link loop of a page.
InLoop == pc \in {"link", "check", "pace"}

\* Link j of the page in hand has been through its check.
Checked(j) ==
    /\ j < li \/ (j = li /\ pc = "pace")
    /\ ~links[j].href.bad
    /\ UrlJoin(urls_to_crawl[idx + 1], links[j].href).scheme \in {"http", "https"}

\* The answer to the check of link j of the page in hand.
AnswerOf(j) == LinkResponse(UrlJoin(urls_to_crawl[idx + 1], links[j].href))

\* The status a link's answer opens with: the first hop's, or its own.
FirstStatus(r) == IF r.history # <<>> THEN Head(r.history) ELSE r.status_code

\* The rows of results that come from link j of the page in hand.
RowsOf(j) == {i \in 1..Len(results) : results_at[i] = <<idx + 1, j>>}

\* C1: every checked link has a row in results if and only if its request
\* failed or its initial status is not 200, and then exactly one row; a link
\* answering 200 directly has none.
C1_FindingIffNot200 ==
    InLoop =>
      \A j \in 1..Len(links) :
        Checked(j) =>
          Cardinality(RowsOf(j)) =
            (IF AnswerOf(j).raised \/ FirstStatus(AnswerOf(j)) # 200 THEN 1 ELSE 0)

\* C1 witness: the second link of a page has just been checked and reported,
\* after a first link that answered 200 directly and left no row; and a
\* redirect that ends on 200 is among the answers reported so far.
C1_Witness ==
    /\ pc = "pace"
    /\ li = 2
    /\ Checked(1) /\ AnswerOf(1).status_code = 200 /\ AnswerOf(1).history = <<>>
    /\ RowsOf(1) = {}
    /\ Cardinality(RowsOf(2)) = 1
    /\ \E i \in 1..Len(all_issues) : all_issues[i].FinalDestination.url.path = "/ok"

\* C2: after a link check that got an answer, a redirected link is reported
\* with the status of the first hop and the URL finally reached, and a link
\* answered without redirect, if reported, with its own status and "Direct".
C2_FirstHopStatus ==
    (pc = "pace" /\ ~link_check.raised) =>
      /\ link_check.history # <<>> =>
           /\ RowsOf(li) # {}
           /\ Last(results).StatusCode = [str |-> "", int |-> Head(link_check.history)]
           /\ Last(results).FinalDestination = [str |-> "", url |-> link_check.url]
      /\ (link_check.history = <<>> /\ RowsOf(li) # {}) =>
           /\ Last(results).StatusCode = [str |-> "", int |-> link_check.status_code]
           /\ Last(results).FinalDestination = [str |-> "Direct", url |-> NoLink]

\* C2 witness: a 301 that ends on a 404 is reported as 301.
C2_Witness ==
    /\ pc = "pace"
    /\ link_check.history = <<301>>
    /\ link_check.status_code = 404
    /\ Last(results).StatusCode.int = 301
    /\ Last(results).FinalDestination.url.path = "/gone"

\* C3: after a link check whose request failed, exactly one row of results
\* comes from that link: Status Code "Error/Timeout", Final Destination "N/A",
\* and the page, anchor text and absolute URL of the link.
C3_FailureRow ==
    (pc = "pace" /\ link_check.raised) =>
      /\ Cardinality(RowsOf(li)) = 1
      /\ Last(results_at) = <<idx + 1, li>>
      /\ Last(results) =
           [SourcePage |-> urls_to_crawl[idx + 1],
            AnchorText |-> anchor,
            LinkInBody |-> absolute_link,
            StatusCode |-> [str |-> "Error/Timeout", int |-> 0],
            FinalDestination |-> [str |-> "N/A", url |-> NoLink]]
      /\ absolute_link = UrlJoin(urls_to_crawl[idx + 1], links[li].href)
      /\ anchor = (IF Strip(links[li].text) = <<>> THEN <<"[Image/No Text]">>
                                                   ELSE Strip(links[li].text))

\* C3 witness: a request has just failed on a link with a blank anchor text.
C3_Witness ==
    /\ pc = "pace"
    /\ link_check.raised
    /\ absolute_link.path = "/down"
    /\ Last(results).AnchorText = <<"[Image/No Text]">>

\* The audit has started on a non-empty seed sequence.
Started == pc = "scan" /\ idx = 0 /\ urls_to_crawl # <<>>

\* The run has ended at "Audit Complete!" with every seed page requested once,
\* in sequence, and the bar at total/total.
Completed ==
    /\ pc = "done"
    /\ status_text.text = "Audit Complete!"
    /\ progress = [shown |-> TRUE, done |-> Len(urls_to_crawl), of |-> Len(urls_to_crawl)]
    /\ fetched = urls_to_crawl
    /\ Len(pages) = Len(urls_to_crawl)

\* C4: an audit started on a non-empty seed sequence always ends completed,
\* whatever pages and links fail, having taken every seed page once in sequence.
C4_AlwaysCompletes == Started ~> Completed

\* C4 witness: a completed audit of two pages, one that could not be fetched
\* and one with a link whose request failed.
C4_Witness ==
    /\ Completed
    /\ Len(urls_to_crawl) = 2
    /\ pages[1].raised
    /\ \E i \in 1..Len(all_issues) : all_issues[i].StatusCode.str = "Error/Timeout"

\* No seed of the sequence resolved is a URL a request can be made for.
NoValidSeed == \A i \in 1..Len(urls_to_crawl) : ~HasScheme(urls_to_crawl[i])

\* C5: once the button is pressed on an input that resolves to no valid seed
\* URL, a warning is shown and the audit does not run: no page is requested,
\* no progress or status is reported and no outcome of an audit is shown.
C5_NoValidSeedNoAudit ==
    (pc # "ready" /\ NoValidSeed) =>
      /\ "warning" \in ui
      /\ pc = "done"
      /\ fetched = <<>>
      /\ ~progress.shown
      /\ status_text = NoStatus
      /\ ui \cap {"success", "balloons", "dataframe", "download_button"} = {}

IsPrefix(a, b) == Len(a) <= Len(b) /\ SubSeq(b, 1, Len(a)) = a

\* <<seed position, link position>> pairs in the order of the crawl.
Before(x, y) == x[1] < y[1] \/ (x[1] = y[1] /\ x[2] < y[2])

\* The report is in crawl order and each row names the seed page it is from.
Ordered ==
    /\ Len(issues_at) = Len(all_issues)
    /\ \A i, j \in 1..Len(all_issues) : i < j => Before(issues_at[i], issues_at[j])
    /\ \A i \in 1..Len(all_issues) :
         all_issues[i].SourcePage = urls_to_crawl[issues_at[i][1]]

\* The example of the claim: p1 links to a direct 200 and a direct 404, p2 to
\* a 302 that ends on 200.
ExampleRows ==
    (pc = "done" /\ urls_to_crawl = << <<U1>>, <<U2>> >> /\ pages = <<P1, P2>>) =>
      all_issues =
        << [SourcePage |-> <<U1>>, AnchorText |-> <<"Old">>,
            LinkInBody |-> [scheme |-> "https", host |-> "a.com", path |-> "/gone"],
            StatusCode |-> [str |-> "", int |-> 404],
            FinalDestination |-> [str |-> "Direct", url |-> NoLink]],
           [SourcePage |-> <<U2>>, AnchorText |-> <<"[Image/No Text]">>,
            LinkInBody |-> [scheme |-> "https", host |-> "c.net", path |-> "/tmp"],
            StatusCode |-> [str |-> "", int |-> 302],
            FinalDestination |->
                [str |-> "", url |-> [scheme |-> "https", host |-> "c.net", path |-> "/ok"]]] >>

\* C6: the report lists rows by seed page in seed order, and within a page by
\* anchor in page order; a step only ever appends rows at its end.
C6_ReportOrdered ==
    /\ [](Ordered /\ ExampleRows)
    /\ [][IsPrefix(all_issues, all_issues')]_vars

\* C6 witness: the example run has ended with its two rows.
C6_Witness ==
    /\ pc = "done"
    /\ urls_to_crawl = << <<U1>>, <<U2>> >>
    /\ pages = <<P1, P2>>
    /\ Len(all_issues) = 2

\* C7: the pages requested are the seed pages, in order, and nothing else;
\* what is checked as a link is never requested as a page on that account; and
\* every row names as Source Page the seed page in hand when it was made.
C7_OneHop ==
    /\ IsPrefix(fetched, urls_to_crawl)
    /\ Len(fetched) = Len(pages)
    /\ Len(fetched) \in {idx, idx + 1}
    /\ \A i \in 1..Len(results) :
         /\ results[i].SourcePage = urls_to_crawl[idx + 1]
         /\ results_at[i][1] = idx + 1
    /\ \A i \in 1..Len(all_issues) :
         /\ issues_at[i][1] <= idx
         /\ all_issues[i].SourcePage = urls_to_crawl[issues_at[i][1]]

\* C7 witness: the second of two different seed pages has a row, and the link
\* it reports has been checked, not requested as a page.
C7_Witness ==
    /\ pc = "pace"
    /\ idx = 1
    /\ urls_to_crawl[1] # urls_to_crawl[2]
    /\ all_issues # <<>>
    /\ results # <<>>
    /\ Last(results).LinkInBody \in checked
    /\ Len(fetched) = 2

\* The descendants of an element, as a set.
RECURSIVE Below(_)
Below(e) == UNION {{e.kids[i]} \cup Below(e.kids[i]) : i \in 1..Len(e.kids)}

\* The <loc> elements of the sitemap namespace in the document received.
LocElements == {e \in Below(response.root) : e.ns = SM /\ e.tag = "loc"}

\* The sitemap was requested: the button was pressed in Sitemap mode on a
\* non-empty input.
SitemapAsked == pc # "ready" /\ mode = "Sitemap (XML)" /\ input_data # <<>>

\* C8: after a sitemap request, a well-formed document with N <loc> elements
\* of the sitemap namespace gives exactly their N texts as seeds, in document
\* order, and none of them is fetched as a sitemap; a failed request or a
\* document that does not parse gives an error message, no seeds, the warning
\* and no audit.
C8_SitemapSeeds ==
    SitemapAsked =>
      IF ~response.raised /\ response.wellformed
      THEN /\ Len(urls_to_crawl) = Cardinality(LocElements)
           /\ \A e \in LocElements :
                urls_to_crawl[1 + Cardinality({f \in LocElements : f.pos < e.pos})] = e.text
           /\ "error" \notin ui
           /\ (LocElements = {} => "warning" \in ui /\ pc = "done" /\ fetched = <<>>)
      ELSE /\ urls_to_crawl = <<>>
           /\ "error" \in ui
           /\ "warning" \in ui
           /\ pc = "done"
           /\ fetched = <<>>

\* C8 witness: a sitemap index with two <loc> entries, nested one level down,
\* has given its two texts in document order, and the audit has come to the
\* second, which it takes as a page like any other seed.
C8_Witness ==
    /\ SitemapAsked
    /\ response = S3
    /\ urls_to_crawl = << <<U2>>, <<JUNK>> >>
    /\ pc = "fetch"
    /\ idx = 1

\* A page answer from which no link list comes: the request failed, or the
\* document has no main, article, MainContent or body container.
Unreadable(d) ==
    \/ d.raised
    \/ /\ ~d.body
       /\ \A i \in 1..Len(d.nodes) :
            d.nodes[i].tag \notin {"main", "article"} /\ d.nodes[i].id # "MainContent"

\* A page answer whose main-content region holds no anchor with an href.
NoLinks(d) ==
    /\ ~Unreadable(d)
    /\ \A i \in 1..Len(MainContent(d).anchors) : ~MainContent(d).anchors[i].hasHref

\* No row of the page's list or of the report comes from seed page k.
NoRowsFrom(k) ==
    /\ \A i \in 1..Len(issues_at) : issues_at[i][1] # k
    /\ \A i \in 1..Len(results_at) : results_at[i][1] # k

\* C9: a seed page that cannot be retrieved or parsed, or whose main-content
\* region has no anchor with an href, contributes no row; right after such a
\* page the script is on its way to the next page with an empty page result,
\* and the step that closes the page leaves the report as it was and moves on.
C9_SkippedPage ==
    /\ [](\A k \in 1..Len(pages) :
            (Unreadable(pages[k]) \/ NoLinks(pages[k])) =>
              /\ NoRowsFrom(k)
              /\ k = idx + 1 =>
                   /\ page_issues = <<>>
                   /\ Unreadable(pages[k]) => pc = "extend"
                   /\ NoLinks(pages[k]) => pc \in {"link", "extend"})
    /\ [][(pc = "extend" /\ (Unreadable(pages[idx + 1]) \/ NoLinks(pages[idx + 1]))) =>
            (all_issues' = all_issues /\ pc' = "scan" /\ idx' = idx + 1)]_vars

\* C9 witness: the audit has ended; its second page had no container, its
\* first page's rows are in the report.
C9_Witness ==
    /\ pc = "done"
    /\ Len(pages) = 2
    /\ pages[2] = P3
    /\ all_issues # <<>>
    /\ \A i \in 1..Len(issues_at) : issues_at[i][1] = 1

\* Link j of page answer d, fetched from url, is one whose check gives a row.
GivesRow(url, d, j) ==
    LET as == FindAllLinks(MainContent(d).anchors)
        u == UrlJoin(url, as[j].href)
        r == LinkResponse(u)
    IN  /\ ~as[j].href.bad
        /\ u.scheme \in {"http", "https"}
        /\ r.raised \/ FirstStatus(r) # 200

\* C10: a failure on one link of a page (resolving its href, checking it,
\* pacing after it) touches that link alone: in the final report every other
\* link of the page whose check gives a row has its row.
C10_LinkFailureContained ==
    pc = "done" =>
      \A k \in 1..Len(pages) :
        ~Unreadable(pages[k]) =>
          \A j \in 1..Len(FindAllLinks(MainContent(pages[k]).anchors)) :
            GivesRow(urls_to_crawl[k], pages[k], j) =>
              \E i \in 1..Len(all_issues) : issues_at[i] = <<k, j>>

\* The least of a non-empty set of positions.
Least(S) == CHOOSE i \in S : \A j \in S : i <= j

\* The anchors of the container a fallback precedence picks in page answer d:
\* the first <main>; else the first <article>; else the first element with id
\* MainContent, of any tag or, with divOnly, among the <div> elements; else
\* the body, which holds every anchor of the document; else none.
PickedAnchors(d, divOnly) ==
    LET at(t) == {i \in 1..Len(d.nodes) : d.nodes[i].tag = t}
        ids == {i \in 1..Len(d.nodes) :
                  d.nodes[i].id = "MainContent" /\ (divOnly => d.nodes[i].tag = "div")}
    IN  IF at("main") # {} THEN d.nodes[Least(at("main"))].anchors
        ELSE IF at("article") # {} THEN d.nodes[Least(at("article"))].anchors
        ELSE IF ids # {} THEN d.nodes[Least(ids)].anchors
        ELSE IF d.body THEN AllAnchors(d.nodes)
        ELSE <<>>

\* The URLs of the anchors with an href inside the containers picked on the
\* pages requested so far.
PickedUrls(divOnly) ==
    UNION {{UrlJoin(urls_to_crawl[k], a.href) :
              a \in {b \in Range(PickedAnchors(pages[k], divOnly)) :
                       b.hasHref /\ ~b.href.bad}} :
           k \in {n \in 1..Len(pages) : ~pages[n].raised}}

\* The links walked are the anchors with an href of the container picked, in
\* order, and nothing outside the containers picked is ever checked.
WalksPicked(divOnly) ==
    /\ InLoop => links = SelectSeq(PickedAnchors(pages[idx + 1], divOnly), HasHrefAttr)
    /\ checked \subseteq PickedUrls(divOnly)

\* C11 as claimed: the container is the first <main>, else the first
\* <article>, else an element of any tag with id MainContent, else the body;
\* only the anchors with an href inside it are checked.
C11_AnyTagPrecedence == WalksPicked(FALSE)

\* C11 amended: the container is the first <main>, else the first <article>,
\* else the first <div> with id MainContent, else the body; only the anchors
\* with an href inside it are checked, and none outside it.
C11_DivPrecedence == WalksPicked(TRUE)

\* C11 witness: on a page whose only element with id MainContent is a
\* <section>, the walk is over the whole body and has checked the link that
\* lies outside the section.
C11_Witness ==
    /\ pc = "pace"
    /\ pages[idx + 1] = P7
    /\ Len(links) = 2
    /\ li = 2
    /\ absolute_link.path = "/err"
    /\ absolute_link \in checked

\* The requests made so far: page requests and link requests.
Requests == Len(fetched) + checks

\* The link in hand is one the loop passes over for its scheme.
Discarding ==
    /\ pc = "link"
    /\ li <= Len(links)
    /\ ~links[li].href.bad
    /\ UrlJoin(urls_to_crawl[idx + 1], links[li].href).scheme \notin {"http", "https"}

\* The pauses owed: one per link check made in slow mode, the check just made
\* still waiting for its own; none with the flag off.
Paced ==
    sleeps = (IF slow_mode THEN checks - (IF pc = "pace" THEN 1 ELSE 0) ELSE 0)

\* C12: in slow mode one pause follows each link check, whatever the check
\* gave, and no request is made while a pause is owed; a link passed over for
\* its scheme makes no request and no pause; with the flag off there is never a
\* pause; and a step makes at most one request, which has been answered when
\* the step ends.
C12_Pacing ==
    /\ []Paced
    /\ [][/\ Requests' <= Requests + 1
          /\ Requests' # Requests => (pc # "pace" /\ sleeps' = sleeps /\ Paced)
          /\ checks' # checks => pc' = "pace"
          /\ pc = "pace" =>
               /\ Requests' = Requests
               /\ sleeps' = sleeps + (IF slow_mode THEN 1 ELSE 0)
          /\ Discarding => (Requests' = Requests /\ sleeps' = sleeps /\ checked' = checked)
         ]_vars

\* C12 witness: a slow audit has ended after a page with a link answering 200
\* and a link answering 404, and a page with a failed request, a mailto link
\* and a redirect: four checks, four pauses.
C12_Witness ==
    /\ pc = "done"
    /\ slow_mode
    /\ pages = <<P1, P6>>
    /\ checks = 4
    /\ sleeps = 4
    /\ Len(all_issues) = 3

====
